---------------------------- MODULE Spec2Model ----------------------------
(***************************************************************************)
(* A model of the NBT codec of go.nbt: Marshal (encode.go) and Unmarshal   *)
(* (decode.go).                                                            *)
(*                                                                         *)
(* Bytes are the integers 0..255, a stream is a sequence of bytes, and a   *)
(* Go string is the sequence of its bytes.  An integer or a float is kept  *)
(* as its big-endian bit pattern (a sequence of width/8 bytes), so every   *)
(* width conversion of the source is a truncation or an extension of that  *)
(* pattern and 64-bit values need no 64-bit arithmetic.                    *)
(*                                                                         *)
(* A Go type is a record [k |-> kind, ...]; a Go value is a record that    *)
(* carries its type in t and its content in a field named after its kind:  *)
(*   Bool b; Int*/Uint*/Float* bits; String s; Array/Slice items;          *)
(*   Map nil, m; Struct f; Ptr p; Interface x  (p and x hold <<>> for nil  *)
(*   and <<v>> otherwise).  A value stored in an interface-typed element   *)
(*   of a slice or a map is kept as the concrete value itself.             *)
(***************************************************************************)
EXTENDS Integers, Sequences, FiniteSets, TLC

\* ------------------------------------------------------------- tags
tagEnd == 0
tagByte == 1
tagShort == 2
tagInt == 3
tagLong == 4
tagFloat == 5
tagDouble == 6
tagByteArray == 7
tagString == 8
tagList == 9
tagCompound == 10
tagIntArray == 11
tagLongArray == 12

\* ------------------------------------------------------------- bytes
Take(s, n) == SubSeq(s, 1, n)
Drop(s, n) == SubSeq(s, n + 1, Len(s))
Min(a, b) == IF a < b THEN a ELSE b
Zeros(n) == [i \in 1..n |-> 0]

\* binary.BigEndian.PutUint16 / PutUint32 of a length.
BE16(n) == <<(n \div 256) % 256, n % 256>>
BE32(n) == <<(n \div 16777216) % 256, (n \div 65536) % 256, (n \div 256) % 256, n % 256>>
\* binary.BigEndian.Uint16 / Uint32 of the bytes read.  A count of 2^31 or
\* more is more than any stream of the model holds; it is kept as the
\* largest number the checker can hold, which is all the code asks of it
\* (a comparison with a length, and a loop that ends at the end of input).
HugeCount == 127 * 16777216 + 16777215
U16(b) == b[1] * 256 + b[2]
U32(b) == IF b[1] >= 128 THEN HugeCount ELSE ((b[1] * 256 + b[2]) * 256 + b[3]) * 256 + b[4]

\* Go's integer conversions on bit patterns: to a narrower type keep the low
\* bytes; to a wider type extend with the sign (signed source) or with
\* zeros (unsigned source).
TruncTo(bits, n) == SubSeq(bits, Len(bits) - n + 1, Len(bits))
SignExtendTo(bits, n) == [i \in 1..(n - Len(bits)) |-> IF bits[1] >= 128 THEN 255 ELSE 0] \o bits
ZeroExtendTo(bits, n) == Zeros(n - Len(bits)) \o bits

\* ------------------------------------------------------------- types
Ty(k) == [k |-> k]
SliceOf(e) == [k |-> "Slice", e |-> e]
ArrayOf(e, n) == [k |-> "Array", e |-> e, n |-> n]
MapOf(e) == [k |-> "Map", e |-> e]
PtrTo(e) == [k |-> "Ptr", e |-> e]
StructOf(fs) == [k |-> "Struct", fs |-> fs]
AnyT == Ty("Interface")

IntKinds == {"Int8", "Uint8", "Int16", "Uint16", "Int32", "Uint32", "Int64", "Uint64", "Int", "Uint"}
FloatKinds == {"Float32", "Float64"}
\* Size in bytes of a fixed-width kind (int and uint are taken as 64-bit).
KindSize(k) == CASE k \in {"Int8", "Uint8"} -> 1
                 [] k \in {"Int16", "Uint16"} -> 2
                 [] k \in {"Int32", "Uint32", "Float32"} -> 4
                 [] OTHER -> 8

Kind(v) == v.t.k

\* ------------------------------------------------------------- values
BoolV(b) == [t |-> Ty("Bool"), b |-> b]
NumV(k, bits) == [t |-> Ty(k), bits |-> bits]
StrV(s) == [t |-> Ty("String"), s |-> s]
SliceV(e, items) == [t |-> SliceOf(e), items |-> items]
ArrayV(e, items) == [t |-> ArrayOf(e, Len(items)), items |-> items]
MapV(e, m) == [t |-> MapOf(e), nil |-> FALSE, m |-> m]
NilMapV(e) == [t |-> MapOf(e), nil |-> TRUE, m |-> <<>>]
StructV(f) == [t |-> StructOf([n \in DOMAIN f |-> f[n].t]), f |-> f]
PtrV(e, p) == [t |-> PtrTo(e), p |-> p]
IfaceV(x) == [t |-> AnyT, x |-> x]

\* The zero value of a type: what new(T) and reflect.New(T).Elem() hold.
RECURSIVE Zero(_)
Zero(t) ==
    CASE t.k = "Bool" -> BoolV(FALSE)
      [] t.k \in IntKinds \cup FloatKinds -> NumV(t.k, Zeros(KindSize(t.k)))
      [] t.k = "String" -> StrV(<<>>)
      [] t.k = "Slice" -> [t |-> t, items |-> <<>>]
      [] t.k = "Array" -> [t |-> t, items |-> [i \in 1..t.n |-> Zero(t.e)]]
      [] t.k = "Map" -> [t |-> t, nil |-> TRUE, m |-> <<>>]
      [] t.k = "Struct" -> [t |-> t, f |-> [n \in DOMAIN t.fs |-> Zero(t.fs[n])]]
      [] t.k = "Ptr" -> [t |-> t, p |-> <<>>]
      [] OTHER -> [t |-> t, x |-> <<>>]

\* ------------------------------------------------------------- errors
\* An error is its kind and the breadcrumbs added while it unwound, the
\* innermost first.  The kinds follow the panics of the source:
\*   IO            binary.Read / io.Reader.Read failed (EOF, short read)
\*   TypeMismatch  "Tag is %s, but I don't know how to put that in a %s!"
\*   Capacity      "... array is of length %d, but only the array given ..."
\*   UnknownField  "nbt: Unhandled %s" for a name the record does not define
\*   UnhandledTag  "nbt: Unhandled tag"
\*   Unsupported   int/uint target, unhandled type / array / list element type
\*   Reflect       a panic of package reflect (unaddressable or unassignable)
NoErr == [kind |-> "None", crumbs |-> <<>>]
Err(kind) == [kind |-> kind, crumbs |-> <<>>]
IsErr(e) == e.kind # "None"
FieldCrumb(name) == [c |-> "field", name |-> name]
IndexCrumb(i) == [c |-> "index", i |-> i]
\* The deferred recover of a container: fmt.Errorf("%v\n\t\tat ...", r, ...).
Annotate(e, crumb) == IF IsErr(e) THEN [e EXCEPT !.crumbs = Append(e.crumbs, crumb)] ELSE e

\* ------------------------------------------------------------- reader
\* decodeState: the input stream.  in is the bytes not yet read;
\* eofOnEmpty is the one point on which in-memory readers differ: whether a
\* Read into an empty buffer at the end of the input returns io.EOF
\* (bytes.Reader) or 0, nil (bytes.Buffer).
NewDecodeState(in, eofOnEmpty) == [in |-> in, eofOnEmpty |-> eofOnEmpty]

\* d.r(&x) for an n-byte x: binary.Read reads with io.ReadFull, so fewer
\* than n bytes left is an error (io.EOF or io.ErrUnexpectedEOF).
r(d, n) ==
    IF Len(d.in) >= n
    THEN [err |-> NoErr, b |-> Take(d.in, n), d |-> [d EXCEPT !.in = Drop(d.in, n)]]
    ELSE [err |-> Err("IO"), b |-> <<>>, d |-> [d EXCEPT !.in = <<>>]]

\* d.in.Read(value) for a buffer of length bytes, called once: it copies the
\* bytes there are, up to length, and reports an error only when there are
\* none.  The buffer comes from make([]byte, length), so the bytes not
\* copied stay zero.
Read(d, length) ==
    LET n == Min(length, Len(d.in))
        eof == Len(d.in) = 0 /\ (length > 0 \/ d.eofOnEmpty)
    IN  [err |-> IF eof THEN Err("IO") ELSE NoErr,
         b |-> Take(d.in, n) \o Zeros(length - n),
         d |-> [d EXCEPT !.in = Drop(d.in, n)]]

\* readString: the 2-byte length, then one Read of that many bytes.
readStringValue(value) ==
    IF IsErr(value.err) THEN [err |-> value.err, s |-> <<>>, d |-> value.d]
    ELSE [err |-> NoErr, s |-> value.b, d |-> value.d]
readStringLength(length) ==
    IF IsErr(length.err) THEN [err |-> length.err, s |-> <<>>, d |-> length.d]
    ELSE readStringValue(Read(length.d, U16(length.b)))
readString(d) == readStringLength(r(d, 2))

\* readTag: returns the name of the tag that was read, and the tag.
readTagName(tag, name) == [err |-> name.err, name |-> name.s, tag |-> tag, d |-> name.d]
readTagByte(tag) ==
    IF IsErr(tag.err) THEN [err |-> tag.err, name |-> <<>>, tag |-> tagEnd, d |-> tag.d]
    ELSE IF tag.b[1] = tagEnd THEN [err |-> NoErr, name |-> <<>>, tag |-> tagEnd, d |-> tag.d]
    ELSE readTagName(tag.b[1], readString(tag.d))
readTag(d) == readTagByte(r(d, 1))

\* The canonical dynamic representation of a tag.
allocateType(tag) ==
    CASE tag = tagByte -> Ty("Int8")
      [] tag = tagShort -> Ty("Int16")
      [] tag = tagInt -> Ty("Int32")
      [] tag = tagLong -> Ty("Int64")
      [] tag = tagFloat -> Ty("Float32")
      [] tag = tagDouble -> Ty("Float64")
      [] tag = tagByteArray -> SliceOf(Ty("Uint8"))
      [] tag = tagString -> Ty("String")
      [] tag = tagList -> SliceOf(AnyT)
      [] tag = tagCompound -> MapOf(AnyT)
      [] tag = tagIntArray -> SliceOf(Ty("Int32"))
      [] OTHER -> SliceOf(Ty("Int64"))

allocate(tag) ==
    IF tag \in tagByte..tagLongArray
    THEN [err |-> NoErr, v |-> Zero(allocateType(tag))]
    ELSE [err |-> Err("UnhandledTag"), v |-> Zero(AnyT)]

\* ------------------------------------------------------------- decoder
\* The result of a read into a target: the error, the target afterwards and
\* the decoder state afterwards.
Res(err, v, d) == [err |-> err, v |-> v, d |-> d]

\* reflect.Value.Set / SetInt / SetString / ...: they panic unless the
\* target is settable.
Store(d, v, settable, nv) == IF settable THEN Res(NoErr, nv, d) ELSE Res(Err("Reflect"), v, d)
\* v.SetInt(x) and v.SetUint(x) keep the low bytes the kind of v has room for.
SetInt(v, x) == [v EXCEPT !.bits = TruncTo(x, KindSize(Kind(v)))]
SetUint(v, x) == [v EXCEPT !.bits = TruncTo(x, KindSize(Kind(v)))]
TypeMismatch(d, v) == Res(Err("TypeMismatch"), v, d)

\* The value handed to SetInt for each integer tag, from the bytes read:
\* int64(int8(value)), int64(int16(value)), int64(int16(value)), int64(value).
int64OfByte(value) == SignExtendTo(TruncTo(value, 1), 8)
int64OfShort(value) == SignExtendTo(TruncTo(value, 2), 8)
int64OfInt(value) == SignExtendTo(TruncTo(value, 2), 8)
int64OfLong(value) == SignExtendTo(TruncTo(value, 8), 8)

\* case tagByte .. tagDouble: the value is read, then the kind of the target
\* is looked at.
setByte(value, v, settable) ==
    IF IsErr(value.err) THEN Res(value.err, v, value.d)
    ELSE CASE Kind(v) = "Bool" -> Store(value.d, v, settable, [v EXCEPT !.b = value.b[1] # 0])
           [] Kind(v) = "Int8" -> Store(value.d, v, settable, SetInt(v, int64OfByte(value.b)))
           [] Kind(v) = "Uint8" -> Store(value.d, v, settable, SetUint(v, ZeroExtendTo(value.b, 8)))
           [] OTHER -> TypeMismatch(value.d, v)
readByte(d, v, settable) == setByte(r(d, 1), v, settable)

setShort(value, v, settable) ==
    IF IsErr(value.err) THEN Res(value.err, v, value.d)
    ELSE CASE Kind(v) = "Int16" -> Store(value.d, v, settable, SetInt(v, int64OfShort(value.b)))
           [] Kind(v) = "Uint16" -> Store(value.d, v, settable, SetUint(v, ZeroExtendTo(value.b, 8)))
           [] OTHER -> TypeMismatch(value.d, v)
readShort(d, v, settable) == setShort(r(d, 2), v, settable)

setInt(value, v, settable) ==
    IF IsErr(value.err) THEN Res(value.err, v, value.d)
    ELSE CASE Kind(v) = "Int32" -> Store(value.d, v, settable, SetInt(v, int64OfInt(value.b)))
           [] Kind(v) = "Uint32" -> Store(value.d, v, settable, SetUint(v, ZeroExtendTo(value.b, 8)))
           [] OTHER -> TypeMismatch(value.d, v)
readInt(d, v, settable) == setInt(r(d, 4), v, settable)

setLong(value, v, settable) ==
    IF IsErr(value.err) THEN Res(value.err, v, value.d)
    ELSE CASE Kind(v) = "Int64" -> Store(value.d, v, settable, SetInt(v, int64OfLong(value.b)))
           [] Kind(v) = "Uint64" -> Store(value.d, v, settable, SetUint(v, value.b))
           [] OTHER -> TypeMismatch(value.d, v)
readLong(d, v, settable) == setLong(r(d, 8), v, settable)

\* float32 -> float64 -> float32 and float64 -> float64 keep the value, so the
\* bit pattern read is the bit pattern stored (NaN payloads are not modelled).
setFloat(value, v, settable, kind) ==
    IF IsErr(value.err) THEN Res(value.err, v, value.d)
    ELSE IF Kind(v) = kind THEN Store(value.d, v, settable, [v EXCEPT !.bits = value.b])
    ELSE TypeMismatch(value.d, v)
readFloat(d, v, settable, kind) == setFloat(r(d, KindSize(kind)), v, settable, kind)

\* case tagString: the kind is looked at before the string is read.
setString(str, v, settable) ==
    IF IsErr(str.err) THEN Res(str.err, v, str.d)
    ELSE Store(str.d, v, settable, [v EXCEPT !.s = str.s])
readStringTag(d, v, settable) ==
    IF Kind(v) # "String" THEN TypeMismatch(d, v) ELSE setString(readString(d), v, settable)

\* A map that kept the first value stored under a name.
SetMapIndexKeepsFirst(v, name, val) == [v EXCEPT !.m = v.m @@ (name :> val)]
\* v.SetMapIndex(name, val): the last value stored under a name stays.
SetMapIndex(v, name, val) == [v EXCEPT !.m = (name :> val) @@ v.m]

\* A check that lets through a count one above the array's length.
arrayTooShortByTwo(v, length) == Len(v.items) + 1 < length
\* The check of a fixed-size array target against the count on the wire.
arrayTooShort(v, length) == Len(v.items) < length
\* The check that makes a slice target be replaced by a fresh one of the
\* count's length.
sliceTooShort(v, length) == Len(v.items) < length
\* reflect.MakeSlice(v.Type(), length, length).  Every element read takes at
\* least one byte, so of a slice longer than the input left only the first
\* Len(d.in) + 1 elements are ever touched: the model keeps no more.
MakeSlice(t, length, d) == [t |-> t, items |-> [i \in 1..Min(length, Len(d.in) + 1) |-> Zero(t.e)]]
\* The slice target the elements are read into.
sliceFor(v, length, d) == IF sliceTooShort(v, length) THEN MakeSlice(v.t, length, d) ELSE v

\* parseStruct: the record's fields by wire name.
parseStruct(v) == v.f

RECURSIVE readValue(_, _, _, _)
RECURSIVE readElems(_, _, _, _, _, _)
RECURSIVE readListElems(_, _, _, _, _)
RECURSIVE readStructFields(_, _, _, _)
RECURSIVE readMapEntries(_, _, _)

\* The element loop of ByteArray, IntArray and LongArray: v.Index(i) is read
\* in place (it panics past the end of v), and no recover is deferred around
\* the loop.
readElem(e, elemTag, v, settable, i, length) ==
    IF IsErr(e.err) THEN Res(e.err, [v EXCEPT !.items[i + 1] = e.v], e.d)
    ELSE readElems(e.d, elemTag, [v EXCEPT !.items[i + 1] = e.v], settable, i + 1, length)
readElems(d, elemTag, v, settable, i, length) ==
    IF i >= length THEN Res(NoErr, v, d)
    ELSE IF i >= Len(v.items) THEN Res(Err("Reflect"), v, d)
    ELSE readElem(readValue(d, elemTag, v.items[i + 1], settable), elemTag, v, settable, i, length)

\* case tagByteArray, tagIntArray, tagLongArray: the three are the same code
\* but for the tag of the elements.
readArrayBody(length, elemTag, v, settable) ==
    IF IsErr(length.err) THEN Res(length.err, v, length.d)
    ELSE IF Kind(v) \notin {"Array", "Slice"} THEN TypeMismatch(length.d, v)
    ELSE IF Kind(v) = "Array"
    THEN IF arrayTooShort(v, U32(length.b)) THEN Res(Err("Capacity"), v, length.d)
         ELSE readElems(length.d, elemTag, v, settable, 0, U32(length.b))
    ELSE IF sliceTooShort(v, U32(length.b)) /\ ~settable THEN Res(Err("Reflect"), v, length.d)
    ELSE readElems(length.d, elemTag, sliceFor(v, U32(length.b), length.d), TRUE, 0, U32(length.b))
readArray(d, elemTag, v, settable) == readArrayBody(r(d, 4), elemTag, v, settable)

\* The value a List element is read into: reflect.New(kind.Elem()).Elem()
\* for a pointer element, d.allocate(inner) for an interface element,
\* reflect.New(kind).Elem() otherwise.
newElem(kind, inner) ==
    CASE kind.k = "Ptr" -> [err |-> NoErr, v |-> Zero(kind.e)]
      [] kind.k = "Interface" -> allocate(inner)
      [] OTHER -> [err |-> NoErr, v |-> Zero(kind)]
\* reflect.Append(v, value); for a pointer element value is the pointer.
appendElem(v, e) ==
    [v EXCEPT !.items = Append(v.items, IF v.t.e.k = "Ptr" THEN PtrV(v.t.e.e, <<e>>) ELSE e)]

\* The element loop of a List; the deferred recover adds the index i that
\* was being read.
readListElemValue(e, inner, v, i, length) ==
    IF IsErr(e.err) THEN Res(Annotate(e.err, IndexCrumb(i)), v, e.d)
    ELSE readListElems(e.d, inner, appendElem(v, e.v), i + 1, length)
readListElem(d, value, inner, v, i, length) ==
    IF IsErr(value.err) THEN Res(Annotate(value.err, IndexCrumb(i)), v, d)
    ELSE readListElemValue(readValue(d, inner, value.v, TRUE), inner, v, i, length)
readListElems(d, inner, v, i, length) ==
    IF i >= length THEN Res(NoErr, v, d)
    ELSE readListElem(d, newElem(v.t.e, inner), inner, v, i, length)

\* case tagList: the element tag and the count are read, then the kind of
\* the target is looked at; the slice is emptied and the elements appended.
readListBody(inner, length, v, settable) ==
    IF IsErr(length.err) THEN Res(length.err, v, length.d)
    ELSE IF Kind(v) # "Slice" THEN TypeMismatch(length.d, v)
    ELSE IF ~settable THEN Res(Err("Reflect"), v, length.d)
    ELSE readListElems(length.d, inner, [v EXCEPT !.items = <<>>], 0, U32(length.b))
readListInner(inner, v, settable) ==
    IF IsErr(inner.err) THEN Res(inner.err, v, inner.d)
    ELSE readListBody(inner.b[1], r(inner.d, 4), v, settable)
readList(d, v, settable) == readListInner(r(d, 1), v, settable)

\* The loop of a Compound read into a struct; name is the variable the
\* deferred recover prints: the last name readTag returned.
readStructFieldValue(e, fname, v, settable) ==
    IF IsErr(e.err) THEN Res(Annotate(e.err, FieldCrumb(fname)), [v EXCEPT !.f[fname] = e.v], e.d)
    ELSE readStructFields(e.d, [v EXCEPT !.f[fname] = e.v], settable, fname)
readStructField(t, v, settable, name) ==
    IF IsErr(t.err) THEN Res(Annotate(t.err, FieldCrumb(name)), v, t.d)
    ELSE IF t.tag = tagEnd THEN Res(NoErr, v, t.d)
    ELSE IF t.name \in DOMAIN parseStruct(v)
    THEN readStructFieldValue(readValue(t.d, t.tag, parseStruct(v)[t.name], settable), t.name, v, settable)
    ELSE Res(Annotate(Err("UnknownField"), FieldCrumb(t.name)), v, t.d)
readStructFields(d, v, settable, name) == readStructField(readTag(d), v, settable, name)

\* The loop of a Compound read into a map.
readMapEntryValue(e, ename, v) ==
    IF IsErr(e.err) THEN Res(Annotate(e.err, FieldCrumb(ename)), v, e.d)
    ELSE IF v.t.e.k # "Interface" /\ v.t.e # e.v.t
    THEN Res(Annotate(Err("Reflect"), FieldCrumb(ename)), v, e.d)
    ELSE readMapEntries(e.d, SetMapIndex(v, ename, e.v), ename)
readMapEntryAlloc(val, t, v) ==
    IF IsErr(val.err) THEN Res(Annotate(val.err, FieldCrumb(t.name)), v, t.d)
    ELSE readMapEntryValue(readValue(t.d, t.tag, val.v, TRUE), t.name, v)
readMapEntry(t, v, name) ==
    IF IsErr(t.err) THEN Res(Annotate(t.err, FieldCrumb(name)), v, t.d)
    ELSE IF t.tag = tagEnd THEN Res(NoErr, v, t.d)
    ELSE readMapEntryAlloc(allocate(t.tag), t, v)
readMapEntries(d, v, name) == readMapEntry(readTag(d), v, name)

\* case tagCompound.  A nil map target is set to a new map[string]interface{}.
readCompound(d, v, settable) ==
    CASE Kind(v) = "Struct" -> readStructFields(d, v, settable, <<>>)
      [] Kind(v) = "Map" ->
            IF v.nil /\ (~settable \/ v.t.e.k # "Interface") THEN Res(Err("Reflect"), v, d)
            ELSE readMapEntries(d, [v EXCEPT !.nil = FALSE], <<>>)
      [] OTHER -> TypeMismatch(d, v)

\* The switch on the tag.
readTagged(d, tag, v, settable) ==
    CASE tag = tagByte -> readByte(d, v, settable)
      [] tag = tagShort -> readShort(d, v, settable)
      [] tag = tagInt -> readInt(d, v, settable)
      [] tag = tagLong -> readLong(d, v, settable)
      [] tag = tagFloat -> readFloat(d, v, settable, "Float32")
      [] tag = tagDouble -> readFloat(d, v, settable, "Float64")
      [] tag = tagByteArray -> readArray(d, tagByte, v, settable)
      [] tag = tagString -> readStringTag(d, v, settable)
      [] tag = tagList -> readList(d, v, settable)
      [] tag = tagCompound -> readCompound(d, v, settable)
      [] tag = tagIntArray -> readArray(d, tagInt, v, settable)
      [] tag = tagLongArray -> readArray(d, tagLong, v, settable)
      [] OTHER -> Res(Err("UnhandledTag"), v, d)

\* The switch on the kind of the target, which comes first.  An interface
\* target is set to the canonical value of the tag and the read goes on in
\* v.Elem(): a copy, which cannot be set and is dropped.  A pointer target
\* is set to point to a fresh value, which is read into.
intoInterface(e, a) == Res(e.err, IfaceV(<<a>>), e.d)
intoPointer(e, t) == Res(e.err, PtrV(t, <<e.v>>), e.d)
readInterface(a, d, tag, v, settable) ==
    IF IsErr(a.err) THEN Res(a.err, v, d)
    ELSE IF ~settable THEN Res(Err("Reflect"), v, d)
    ELSE intoInterface(readTagged(d, tag, a.v, FALSE), a.v)
readValue(d, tag, v, settable) ==
    CASE Kind(v) \in {"Int", "Uint"} -> Res(Err("Unsupported"), v, d)
      [] Kind(v) = "Interface" -> readInterface(allocate(tag), d, tag, v, settable)
      [] Kind(v) = "Ptr" ->
            IF ~settable THEN Res(Err("Reflect"), v, d)
            ELSE intoPointer(readTagged(d, tag, Zero(v.t.e), TRUE), v.t.e)
      [] OTHER -> readTagged(d, tag, v, settable)

\* d.unmarshal(v): the root tag, its name dropped, then the value.
unmarshalRoot(t, v) == IF IsErr(t.err) THEN Res(t.err, v, t.d) ELSE readValue(t.d, t.tag, v, TRUE)
unmarshal(d, v) == unmarshalRoot(readTag(d), v)

\* ------------------------------------------------------------- encoder
\* What an encoding step leaves: the error and the bytes written to out
\* before it.  Go ranges over a map in an order it does not fix, so a step
\* that writes a map or a record has several possible results: every writer
\* below is the set of its possible results.
Wrote(out) == {[err |-> NoErr, out |-> out]}
Panic(kind) == {[err |-> Err(kind), out |-> <<>>]}
\* R, then S unless R panicked.
Then(R, S) == {IF IsErr(a.err) THEN a ELSE [err |-> b.err, out |-> a.out \o b.out] : a \in R, b \in S}
Recovered(R, crumb) == {[a EXCEPT !.err = Annotate(a.err, crumb)] : a \in R}

\* The zero reflect.Value: what reflect.Indirect of a nil pointer and Elem of
\* a nil interface give; its Kind is Invalid.
Invalid == [t |-> Ty("Invalid")]
\* reflect.Indirect(v): the value and whether it is addressable.
Indirect(v, addr) ==
    IF Kind(v) # "Ptr" THEN [v |-> v, addr |-> addr]
    ELSE IF v.p = <<>> THEN [v |-> Invalid, addr |-> FALSE]
    ELSE [v |-> v.p[1], addr |-> TRUE]
\* for v.Kind() == reflect.Interface { v = v.Elem() }
Unwrap(i) ==
    IF Kind(i.v) # "Interface" THEN i
    ELSE IF i.v.x = <<>> THEN [v |-> Invalid, addr |-> FALSE]
    ELSE [v |-> i.v.x[1], addr |-> FALSE]

RECURSIVE Concat(_)
Concat(ss) == IF ss = <<>> THEN <<>> ELSE Head(ss) \o Concat(Tail(ss))
\* The big-endian bytes binary.Write gives for each element of an array.
ElemBits(v) == Concat([i \in 1..Len(v.items) |-> v.items[i].bits])

\* uint16(len(s)) and uint32(len(b)): the length, cut to the width.
Len16(s) == BE16(Len(s) % 65536)
Len32(s) == BE32(Len(s))

\* writeValue(out, tagString, s) and writeValue(out, tagByteArray, b).
writeString(s) == Len16(s) \o s
writeByteArray(b) == Len32(b) \o b
\* w(out, tag) then writeValue(out, tagString, name): the head of a named tag.
writeHeader(tag, name) == <<tag>> \o writeString(name)

\* The byte written for a bool.
BoolByte(b) == IF b THEN <<1>> ELSE <<0>>

\* The tag writeTag gives a fixed-width kind.
ScalarTag(k) ==
    CASE k \in {"Bool", "Int8", "Uint8"} -> tagByte
      [] k \in {"Int16", "Uint16"} -> tagShort
      [] k \in {"Int32", "Uint32"} -> tagInt
      [] k \in {"Int64", "Uint64"} -> tagLong
      [] k = "Float32" -> tagFloat
      [] OTHER -> tagDouble
ScalarKinds == {"Bool", "Int8", "Uint8", "Int16", "Uint16", "Int32", "Uint32", "Int64", "Uint64", "Float32", "Float64"}

\* case reflect.Array of writeTag, after the kind of the elements: a byte
\* array is sliced (which needs an addressable array) and written with its
\* count; the elements of the two other arrays are written one by one.
writeArrayTag(name, v, addr) ==
    CASE v.t.e.k = "Uint8" ->
            IF addr THEN Wrote(writeHeader(tagByteArray, name) \o writeByteArray(ElemBits(v)))
            ELSE {[err |-> Err("Reflect"), out |-> writeHeader(tagByteArray, name)]}
      [] v.t.e.k \in {"Int32", "Uint32"} -> Wrote(writeHeader(tagIntArray, name) \o ElemBits(v))
      [] v.t.e.k \in {"Int64", "Uint64"} -> Wrote(writeHeader(tagLongArray, name) \o ElemBits(v))
      [] OTHER -> Panic("Unsupported")

\* The element tag writeList derives from the element type (-1: none, the
\* default case, which panics).
listTag(e) ==
    CASE e.k \in ScalarKinds -> ScalarTag(e.k)
      [] e.k = "String" -> tagString
      [] e.k = "Array" ->
            CASE e.e.k = "Uint8" -> tagByteArray
              [] e.e.k \in {"Int32", "Uint32"} -> tagIntArray
              [] e.e.k \in {"Int64", "Uint64"} -> tagLongArray
              [] OTHER -> -1
      [] e.k = "Slice" -> tagList
      [] e.k \in {"Map", "Struct", "Ptr"} -> tagCompound
      [] OTHER -> -1

\* The orders a range over a map with these keys can take.
Orders(S) == {o \in [1..Cardinality(S) -> S] : \A i, j \in 1..Cardinality(S) : o[i] = o[j] => i = j}

\* A list header with the count before the element tag.
writeListHeaderCountFirst(tag, n) == BE32(n) \o <<tag>>
\* w(out, tag); w(out, uint32(v.Len())) of writeList.
writeListHeader(tag, n) == <<tag>> \o BE32(n)

\* v.MapIndex(name) of a map of interfaces is an interface value holding the
\* element; writeMap applies reflect.Indirect to it before writeTag.
MapIndex(v, name) ==
    IF v.t.e.k = "Interface" /\ Kind(v.m[name]) # "Interface" THEN IfaceV(<<v.m[name]>>)
    ELSE Indirect(v.m[name], FALSE).v

RECURSIVE writeTag(_, _, _)
RECURSIVE writeList(_)
RECURSIVE writeListElems(_, _, _)
RECURSIVE writeEntries(_, _, _, _)

\* The entries named by order[i..], each a full named tag.
writeEntries(vals, addr, order, i) ==
    IF i > Len(order) THEN Wrote(<<>>)
    ELSE Then(writeTag(order[i], vals[order[i]], addr), writeEntries(vals, addr, order, i + 1))

\* A map written with no End after its entries.
writeMapNoEnd(v) ==
    UNION {writeEntries([n \in DOMAIN v.m |-> MapIndex(v, n)], FALSE, o, 1) : o \in Orders(DOMAIN v.m)}
writeMap(v) ==
    UNION {Then(writeEntries([n \in DOMAIN v.m |-> MapIndex(v, n)], FALSE, o, 1), Wrote(<<tagEnd>>)) : o \in Orders(DOMAIN v.m)}

\* writeCompound: parseStruct gives the fields of a struct, and fails on
\* anything else.
writeFields(i) ==
    IF Kind(i.v) # "Struct" THEN Panic("Unsupported")
    ELSE UNION {Then(writeEntries(parseStruct(i.v), i.addr, o, 1), Wrote(<<tagEnd>>)) : o \in Orders(DOMAIN parseStruct(i.v))}
writeCompound(v, addr) == writeFields(Indirect(v, addr))

\* One element of a list, by the flags and the tag writeList set.  An
\* element of a slice is addressable.
writeListElem(tag, e, item) ==
    CASE e.k = "Bool" -> Wrote(BoolByte(item.b))
      [] tag = tagCompound /\ e.k = "Map" -> writeMap(item)
      [] tag = tagCompound -> writeCompound(Indirect(item, TRUE).v, TRUE)
      [] tag = tagList -> writeList(item)
      [] tag = tagByteArray -> Wrote(writeByteArray(ElemBits(item)))  \* Bytes() of an addressable byte array (Go 1.19 on)
      [] tag \in {tagIntArray, tagLongArray} -> Wrote(ElemBits(item))
      [] tag = tagString -> Wrote(writeString(item.s))
      [] OTHER -> Wrote(item.bits)

\* The loop of writeList from index i; the deferred recover adds the index.
writeListElems(tag, v, i) ==
    IF i >= Len(v.items) THEN Wrote(<<>>)
    ELSE Then(Recovered(writeListElem(tag, v.t.e, v.items[i + 1]), IndexCrumb(i)), writeListElems(tag, v, i + 1))

writeList(v) ==
    IF listTag(v.t.e) = -1 THEN Panic("Unsupported")
    ELSE Then(Wrote(writeListHeader(listTag(v.t.e), Len(v.items))), writeListElems(listTag(v.t.e), v, 0))

\* The switch of writeTag on the kind of the value.
writeKind(name, v, addr) ==
    CASE Kind(v) = "Bool" -> Wrote(writeHeader(tagByte, name) \o BoolByte(v.b))
      [] Kind(v) \in ScalarKinds \ {"Bool"} -> Wrote(writeHeader(ScalarTag(Kind(v)), name) \o v.bits)
      [] Kind(v) = "String" -> Wrote(writeHeader(tagString, name) \o writeString(v.s))
      [] Kind(v) = "Array" -> writeArrayTag(name, v, addr)
      [] Kind(v) = "Slice" -> Then(Wrote(writeHeader(tagList, name)), writeList(v))
      [] Kind(v) = "Map" -> Then(Wrote(writeHeader(tagCompound, name)), writeMap(v))
      [] Kind(v) = "Struct" -> Then(Wrote(writeHeader(tagCompound, name)), writeCompound(v, addr))
      [] OTHER -> Panic("Unsupported")
writeUnwrapped(name, u) == writeKind(name, u.v, u.addr)
\* writeTag: reflect.Indirect, the interfaces unwrapped, the switch; the
\* deferred recover adds the name to whatever panicked.
writeTag(name, v, addr) == Recovered(writeUnwrapped(name, Unwrap(Indirect(v, addr))), FieldCrumb(name))

\* Marshal(Uncompressed, out, v): reflect.ValueOf(v) is not addressable.
writeRootTag(v) == writeTag(<<>>, v, FALSE)

\* Unmarshal(Uncompressed, in, v): v points to the target; a panic of the
\* decoder is recovered and returned as the error.
Unmarshal(in, eofOnEmpty, target) == unmarshal(NewDecodeState(in, eofOnEmpty), target)
\* Marshal(Uncompressed, out, v): the possible results.
Marshal(v) == writeRootTag(v)

\* ------------------------------------------------------------- inputs
\* The longest slice, array and wire count the inputs hold.
MaxLen == 2
\* The longest slice a target holds before the decode.
MaxPrior == 3

\* Bit patterns of n bytes: the upper half one byte repeated, the lower half
\* another, over the bytes that decide sign and carry.
EdgeBytes == {0, 1, 128, 255}
Patterns(n) ==
    IF n = 1 THEN {<<b>> : b \in EdgeBytes}
    ELSE {[i \in 1..n |-> IF 2 * i <= n THEN a ELSE b] : a, b \in EdgeBytes}

NameA == <<97>>
NameBC == <<98, 99>>
Names == {NameA, NameBC}
Texts == {<<>>, <<120>>, <<120, 121, 122>>}

SeqsUpTo(S, n) == UNION {[1..m -> S] : m \in 0..n}

\* Two values of each kind for the elements of containers: one small, one
\* that uses the high bytes.
Sample(k) ==
    CASE k = "Bool" -> {BoolV(TRUE), BoolV(FALSE)}
      [] k = "String" -> {StrV(<<120>>), StrV(<<>>)}
      [] OTHER -> {NumV(k, [i \in 1..KindSize(k) |-> IF i = KindSize(k) THEN 1 ELSE 0]),
                   NumV(k, [i \in 1..KindSize(k) |-> IF i = 1 THEN 1 ELSE 128])}

ElemKinds == ScalarKinds \cup {"String"}
Scalars ==
    {BoolV(b) : b \in BOOLEAN}
    \cup UNION {{NumV(k, bits) : bits \in Patterns(KindSize(k))} : k \in ScalarKinds \ {"Bool"}}
    \cup {StrV(s) : s \in Texts}
    \cup {Zero(Ty("Int")), Zero(Ty("Uint"))}
Slices == UNION {{SliceV(Ty(k), items) : items \in SeqsUpTo(Sample(k), MaxLen)} : k \in ElemKinds}
ArrayKinds == {"Uint8", "Int8", "Int16", "Int32", "Uint32", "Int64", "Uint64"}
Arrays == UNION {{ArrayV(Ty(k), items) : items \in SeqsUpTo(Sample(k), MaxLen) \ {<<>>}} : k \in ArrayKinds}
             \cup {[t |-> ArrayOf(Ty(k), 0), items |-> <<>>] : k \in ArrayKinds}

\* Values for the entries of maps and records and the elements of lists.
I32(n) == NumV("Int32", <<0, 0, 0, n>>)
U8A == ArrayV(Ty("Uint8"), <<NumV("Uint8", <<7>>), NumV("Uint8", <<8>>)>>)
I32A == ArrayV(Ty("Int32"), <<I32(1), I32(5)>>)
I64A == ArrayV(Ty("Int64"), <<NumV("Int64", <<0, 0, 0, 0, 0, 0, 0, 1>>)>>)
Boxed ==
    {I32(1), NumV("Int8", <<255>>), NumV("Uint8", <<200>>), StrV(<<120>>), BoolV(TRUE),
     SliceV(AnyT, <<>>), SliceV(Ty("Int32"), <<I32(2)>>), MapV(AnyT, <<>>), U8A, IfaceV(<<>>)}
Funs(D, R) == UNION {[S -> R] : S \in SUBSET D}
Maps ==
    {MapV(AnyT, m) : m \in Funs(Names, Boxed)}
    \cup {MapV(Ty("Int32"), m) : m \in Funs(Names, {I32(1), I32(2)})}
    \cup {MapV(PtrTo(Ty("Int32")), (NameA :> PtrV(Ty("Int32"), <<I32(1)>>)))}
    \cup {NilMapV(AnyT), NilMapV(Ty("Int32"))}
Fields ==
    {I32(1), NumV("Int16", <<1, 2>>), StrV(<<120>>), BoolV(TRUE), SliceV(Ty("String"), <<StrV(<<120>>), StrV(<<121>>)>>),
     SliceV(Ty("Int8"), <<NumV("Int8", <<1>>)>>), U8A, I32A, IfaceV(<<I32(1)>>), Zero(Ty("Int"))}
Structs == {StructV(f) : f \in Funs(Names, Fields)}
Nested ==
    {SliceV(SliceOf(Ty("Int8")), <<SliceV(Ty("Int8"), <<NumV("Int8", <<1>>)>>), SliceV(Ty("Int8"), <<>>)>>),
     SliceV(U8A.t, <<U8A>>), SliceV(I32A.t, <<I32A, I32A>>), SliceV(I64A.t, <<I64A>>),
     SliceV(ArrayOf(Ty("Int16"), 1), <<>>),
     SliceV(MapOf(AnyT), <<MapV(AnyT, (NameA :> I32(1))), MapV(AnyT, <<>>)>>),
     SliceV(StructOf((NameA :> Ty("Int32"))), <<StructV((NameA :> I32(1))), StructV((NameA :> I32(2)))>>),
     SliceV(StructOf((NameA :> AnyT)), <<StructV((NameA :> IfaceV(<<I32(1)>>))), StructV((NameA :> IfaceV(<<>>)))>>),
     SliceV(MapOf(AnyT), <<MapV(AnyT, (NameBC :> StrV(<<120>>))), MapV(AnyT, (NameBC :> IfaceV(<<>>)))>>),
     SliceV(PtrTo(StructOf((NameA :> Ty("Int8")))), <<PtrV(StructOf((NameA :> Ty("Int8"))), <<StructV((NameA :> NumV("Int8", <<3>>)))>>)>>),
     SliceV(PtrTo(Ty("Int8")), <<PtrV(Ty("Int8"), <<NumV("Int8", <<3>>)>>)>>),
     SliceV(AnyT, <<I32(1)>>), SliceV(Ty("Int"), <<>>),
     SliceV(SliceOf(Ty("Int")), <<SliceV(Ty("Int"), <<>>), SliceV(Ty("Int"), <<>>)>>),
     MapV(AnyT, (NameA :> SliceV(Ty("Int32"), <<I32(1), I32(2), I32(3)>>))),
     PtrV(U8A.t, <<U8A>>), PtrV(Ty("Int32"), <<I32(1)>>), PtrV(Ty("Int32"), <<>>),
     PtrV(StructOf((NameA :> U8A.t)), <<StructV((NameA :> U8A))>>), Invalid}
\* The values given to Marshal.
Values == Scalars \cup Slices \cup Arrays \cup Maps \cup Structs \cup Nested

\* Raw documents given to Unmarshal as they are: a root tag with the empty
\* name and a payload.
Counted(c, n) == BE32(c) \o Concat([i \in 1..c |-> [j \in 1..n |-> IF j = n THEN i ELSE 0]])
\* The entries of the raw Compound documents: tag, name and payload, and
\* beside them what section 4.1 says of each: val, the canonical dynamic
\* value of the payload, and fits, the typed shapes it decodes into.
EntrySpecs ==
    {[tag |-> tagByte, name |-> NameA, payload |-> <<1>>, val |-> NumV("Int8", <<1>>),
      fits |-> {Ty("Int8"), Ty("Uint8"), Ty("Bool")}],
     [tag |-> tagByte, name |-> NameA, payload |-> <<2>>, val |-> NumV("Int8", <<2>>),
      fits |-> {Ty("Int8"), Ty("Uint8"), Ty("Bool")}],
     [tag |-> tagString, name |-> NameA, payload |-> <<0, 1, 120>>, val |-> StrV(<<120>>),
      fits |-> {Ty("String")}],
     [tag |-> tagInt, name |-> NameBC, payload |-> <<0, 0, 0, 9>>, val |-> NumV("Int32", <<0, 0, 0, 9>>),
      fits |-> {Ty("Int32"), Ty("Uint32")}],
     [tag |-> tagList, name |-> NameBC, payload |-> <<tagShort, 0, 0, 0, 1, 0, 1>>,
      val |-> SliceV(AnyT, <<NumV("Int16", <<0, 1>>)>>),
      fits |-> {SliceOf(Ty("Int16")), SliceOf(Ty("Uint16"))}],
     [tag |-> tagIntArray, name |-> NameBC, payload |-> <<0, 0, 0, 1, 0, 0, 0, 7>>,
      val |-> SliceV(Ty("Int32"), <<NumV("Int32", <<0, 0, 0, 7>>)>>),
      fits |-> {SliceOf(Ty("Int32")), SliceOf(Ty("Uint32")), ArrayOf(Ty("Int32"), 1)}]}
EntryBytes(e) == <<e.tag>> \o BE16(Len(e.name)) \o e.name \o e.payload
CompoundOf(es) == <<tagCompound, 0, 0>> \o Concat([i \in 1..Len(es) |-> EntryBytes(es[i])]) \o <<tagEnd>>
Entries == {EntryBytes(e) : e \in EntrySpecs} \cup {<<13, 0, 0>>}
\* An integer entry named "a" with the given payload.
IntTags == {tagByte, tagShort, tagInt, tagLong}
IntEntry(tag, bits) == <<tag>> \o BE16(Len(NameA)) \o NameA \o bits
ListInner == {tagEnd, tagByte, tagInt, tagString, tagCompound, 13}
ListItem(inner) ==
    CASE inner = tagByte -> <<1>>
      [] inner = tagInt -> <<0, 0, 0, 1>>
      [] inner = tagString -> writeString(<<120>>)
      [] inner = tagCompound -> writeHeader(tagByte, NameA) \o <<1>> \o <<tagEnd>>
      [] OTHER -> <<>>
Payloads(tag) ==
    CASE tag \in {tagByte, tagShort, tagInt, tagLong} ->
            Patterns(KindSize(allocateType(tag).k))
      [] tag \in {tagFloat, tagDouble} -> {[i \in 1..KindSize(allocateType(tag).k) |-> 64]}
      [] tag = tagByteArray -> {Counted(c, 1) : c \in 0..MaxLen}
      [] tag = tagIntArray -> {Counted(c, 4) : c \in 0..MaxLen}
      [] tag = tagLongArray -> {Counted(c, 8) : c \in 0..MaxLen}
      [] tag = tagString -> {writeString(t) : t \in Texts}
      [] tag = tagList ->
            {writeListHeader(inner, c) \o Concat([i \in 1..c |-> ListItem(inner)]) : inner \in ListInner, c \in 0..MaxLen}
      [] tag = tagCompound ->
            {Concat(es) \o <<tagEnd>> : es \in SeqsUpTo(Entries, 2)}
            \cup UNION {{IntEntry(t, bits) \o <<tagEnd>> : bits \in Patterns(KindSize(allocateType(t).k))} : t \in IntTags}
      [] OTHER -> {<<>>}
WireTags == tagEnd..(tagLongArray + 1)
WireDocs == UNION {{(IF tag = tagEnd THEN <<tag>> ELSE writeHeader(tag, <<>>)) \o p : p \in Payloads(tag)} : tag \in WireTags}

\* The targets given to Unmarshal.  A slice target may hold elements from
\* before; they are marked with 9s.
Marked(t) ==
    CASE t.k = "Bool" -> BoolV(TRUE)
      [] t.k = "String" -> StrV(<<57>>)
      [] t.k = "Interface" -> IfaceV(<<StrV(<<57>>)>>)
      [] OTHER -> NumV(t.k, [i \in 1..KindSize(t.k) |-> 9])
TargetElems == {Ty(k) : k \in {"Uint8", "Int8", "Bool", "Int16", "Int32", "Uint32", "Int64", "String", "Interface"}}
SliceTargets == {SliceV(e, [i \in 1..n |-> Marked(e)]) : e \in TargetElems, n \in 0..MaxPrior}
ArrayTargets == {Zero(ArrayOf(e, n)) : e \in TargetElems, n \in 0..MaxPrior}
RecordTypes ==
    {StructOf(<<>>), StructOf((NameA :> Ty("Int8"))), StructOf((NameA :> Ty("String"))),
     StructOf((NameA :> Ty("Int8")) @@ (NameBC :> Ty("Int32"))),
     StructOf((NameA :> Ty("Bool")) @@ (NameBC :> SliceOf(Ty("Int16")))),
     StructOf((NameA :> AnyT) @@ (NameBC :> SliceOf(Ty("Int32")))),
     StructOf((NameBC :> ArrayOf(Ty("Int32"), 1))), StructOf((NameBC :> SliceOf(Ty("String"))))}
MapTargets ==
    {NilMapV(AnyT), MapV(AnyT, (NameA :> StrV(<<57>>))), NilMapV(Ty("Int32")), MapV(Ty("Int32"), <<>>),
     MapV(Ty("Int8"), (NameBC :> NumV("Int8", <<9>>)))}
CompoundTargets == MapTargets \cup {Zero(t) : t \in RecordTypes}
Targets ==
    {Zero(Ty(k)) : k \in ScalarKinds \cup {"String", "Int", "Uint", "Interface"}}
    \cup SliceTargets \cup ArrayTargets \cup CompoundTargets
    \cup {Zero(SliceOf(SliceOf(Ty("Int8")))), Zero(SliceOf(PtrTo(Ty("Int8")))), Zero(SliceOf(MapOf(AnyT))),
          Zero(PtrTo(Ty("Int32"))), Zero(PtrTo(StructOf((NameA :> Ty("Int8")))))}

\* The shape of the value Marshal was given: its type, behind the pointer
\* if it was passed by pointer.
Shape(v) == Indirect(v, FALSE).v.t

\* ------------------------------------------------------------- machine
VARIABLES
    phase,       \* "idle", "written" (a stream stands ready) or "read"
    value,       \* the value given to Marshal (None for a raw document)
    merr,        \* the error Marshal returned
    full,        \* the stream as it was written
    stream,      \* the stream Unmarshal reads: full, or a prefix of it
    eofOnEmpty,  \* the kind of reader the stream is read through
    target0,     \* the target as given to Unmarshal
    target,      \* the target after Unmarshal
    uerr,        \* the error Unmarshal returned
    rest         \* the bytes Unmarshal left unread
vars == <<phase, value, merr, full, stream, eofOnEmpty, target0, target, uerr, rest>>

None == [t |-> Ty("None")]
cut == stream # full

Init ==
    /\ phase = "idle"
    /\ value = None
    /\ merr = NoErr
    /\ full = <<>>
    /\ stream = <<>>
    /\ eofOnEmpty \in BOOLEAN
    /\ target0 = None
    /\ target = None
    /\ uerr = NoErr
    /\ rest = <<>>

\* A call of Marshal(Uncompressed, s, v) on an empty stream s.
DoMarshal ==
    /\ phase = "idle"
    /\ \E v \in Values : \E res \in Marshal(v) :
          /\ value' = v
          /\ merr' = res.err
          /\ full' = res.out
          /\ stream' = res.out
    /\ phase' = "written"
    /\ UNCHANGED <<eofOnEmpty, target0, target, uerr, rest>>

\* A document that comes from elsewhere.
Receive ==
    /\ phase = "idle"
    /\ \E doc \in WireDocs : full' = doc /\ stream' = doc
    /\ phase' = "written"
    /\ UNCHANGED <<value, merr, eofOnEmpty, target0, target, uerr, rest>>

\* The stream loses its end before it is read.
Truncate ==
    /\ phase = "written"
    /\ ~IsErr(merr)
    /\ ~cut
    /\ \E n \in 0..(Len(full) - 1) : stream' = Take(full, n)
    /\ UNCHANGED <<phase, value, merr, full, eofOnEmpty, target0, target, uerr, rest>>

\* The targets a stream is read into: a raw document into every target, a
\* marshalled value into a zero target of its own shape and, a map or a
\* record, into every map and record target; a truncated stream into the
\* target of its own shape.
Natural == IF value = None THEN Zero(allocateType(IF full[1] \in tagByte..tagLongArray THEN full[1] ELSE tagByte))
           ELSE IF value = Invalid THEN Zero(AnyT) ELSE Zero(Shape(value))
TargetsFor ==
    IF cut THEN {Natural}
    ELSE IF value = None THEN Targets
    ELSE IF Natural.t.k \in {"Map", "Struct"} THEN {Natural} \cup CompoundTargets
    ELSE {Natural}

\* A call of Unmarshal(Uncompressed, s, &target).  The output of a Marshal
\* that failed is not read.
DoUnmarshal ==
    /\ phase = "written"
    /\ ~IsErr(merr)
    /\ \E t \in TargetsFor :
          LET res == Unmarshal(stream, eofOnEmpty, t) IN
          /\ target0' = t
          /\ target' = res.v
          /\ uerr' = res.err
          /\ rest' = res.d.in
    /\ phase' = "read"
    /\ UNCHANGED <<value, merr, full, stream, eofOnEmpty>>

\* The next call starts afresh, on a reader of either kind.
Reset ==
    /\ phase \in {"written", "read"}
    /\ phase' = "idle"
    /\ value' = None
    /\ merr' = NoErr
    /\ full' = <<>>
    /\ stream' = <<>>
    /\ eofOnEmpty' \in BOOLEAN
    /\ target0' = None
    /\ target' = None
    /\ uerr' = NoErr
    /\ rest' = <<>>

Next == DoMarshal \/ Receive \/ Truncate \/ DoUnmarshal \/ Reset

Spec == Init /\ [][Next]_vars

\* ------------------------------------------------------------- claims
\* Value-wise equality: a nil map and an empty map hold the same entries.
RECURSIVE Plain(_)
Plain(v) ==
    CASE Kind(v) \in {"Array", "Slice"} -> [v EXCEPT !.items = [i \in 1..Len(v.items) |-> Plain(v.items[i])]]
      [] Kind(v) = "Map" -> [v EXCEPT !.nil = FALSE, !.m = [n \in DOMAIN v.m |-> Plain(v.m[n])]]
      [] Kind(v) = "Struct" -> [v EXCEPT !.f = [n \in DOMAIN v.f |-> Plain(v.f[n])]]
      [] Kind(v) \in {"Ptr"} -> [v EXCEPT !.p = [i \in 1..Len(v.p) |-> Plain(v.p[i])]]
      [] Kind(v) \in {"Interface"} -> [v EXCEPT !.x = [i \in 1..Len(v.x) |-> Plain(v.x[i])]]
      [] OTHER -> v
SameValue(a, b) == Plain(a) = Plain(b)

\* A round trip: Marshal wrote value with no error to a stream that is both
\* written and read (a reader that gives 0, nil for an empty read), and
\* Unmarshal read the whole of it into a zero target of the value's shape.
RoundTrip ==
    /\ phase = "read"
    /\ value # None
    /\ ~cut
    /\ ~eofOnEmpty
    /\ target0 = Zero(Shape(value))

\* C1: a round trip of a supported value succeeds and leaves the target
\* value-wise equal to the value that was marshalled.
C1_RoundTripRestores ==
    RoundTrip => (~IsErr(uerr) /\ SameValue(target, Indirect(value, FALSE).v))

\* The tag of the document in the stream.
RootTag == IF full = <<>> THEN tagEnd ELSE full[1]
\* A raw document with a known tag was read whole.
ReadRaw == phase = "read" /\ value = None /\ ~cut /\ RootTag \in tagByte..tagLongArray

\* The table of section 4.2 read backwards: the shapes a tag may be decoded
\* into in typed mode.
Compatible(tag, t) ==
    CASE tag = tagByte -> t.k \in {"Bool", "Int8", "Uint8"}
      [] tag = tagShort -> t.k \in {"Int16", "Uint16"}
      [] tag = tagInt -> t.k \in {"Int32", "Uint32"}
      [] tag = tagLong -> t.k \in {"Int64", "Uint64"}
      [] tag = tagFloat -> t.k = "Float32"
      [] tag = tagDouble -> t.k = "Float64"
      [] tag = tagByteArray -> t.k \in {"Array", "Slice"} /\ t.e.k \in {"Bool", "Int8", "Uint8"}
      [] tag = tagString -> t.k = "String"
      [] tag = tagList -> t.k = "Slice"
      [] tag = tagCompound -> t.k \in {"Map", "Struct"}
      [] tag = tagIntArray -> t.k \in {"Array", "Slice"} /\ t.e.k \in {"Int32", "Uint32"}
      [] OTHER -> t.k \in {"Array", "Slice"} /\ t.e.k \in {"Int64", "Uint64"}
\* A target of typed mode: a concrete shape, not an interface, a pointer or
\* the unsupported int and uint, nor a sequence of these.
TypedKinds == ScalarKinds \cup {"String", "Array", "Slice", "Map", "Struct"}
Typed(t) == t.k \in TypedKinds /\ (t.k \in {"Array", "Slice"} => t.e.k \in TypedKinds)

\* C2: a tag read into a typed target it is not compatible with fails with
\* a TypeMismatch error, whatever the payload, a count of 0 included.
C2_IncompatibleTagFails ==
    (ReadRaw /\ Typed(target0.t) /\ ~Compatible(RootTag, target0.t)) => uerr.kind = "TypeMismatch"

\* The raw Compound documents, by their entries.
EntryLists == SeqsUpTo(EntrySpecs, 2)
\* The first entry of es whose name the record type t does not define, when
\* every entry before it fits its field (0: there is none).
FirstUnknown(es, t) ==
    IF \E i \in 1..Len(es) : es[i].name \notin DOMAIN t.fs
    THEN LET i == CHOOSE i \in 1..Len(es) :
                     /\ es[i].name \notin DOMAIN t.fs
                     /\ \A j \in 1..(i - 1) : es[j].name \in DOMAIN t.fs
         IN  IF \A j \in 1..(i - 1) : t.fs[es[j].name] \in es[j].fits THEN i ELSE 0
    ELSE 0
\* The last entry of es with the name of entry i.
LastNamed(es, i) == CHOOSE j \in i..Len(es) : es[j].name = es[i].name /\ \A k \in (j + 1)..Len(es) : es[k].name # es[i].name

\* C3: a Compound with an entry whose name the record target does not define
\* fails with UnknownField, the error naming the entry; the same bytes read
\* into a map[string]interface{} succeed, and the map holds under every name
\* the value of the last entry with that name.
C3_StrictRecordPermissiveMap ==
    \A es \in EntryLists :
        (phase = "read" /\ ~cut /\ full = CompoundOf(es)) =>
            /\ (Kind(target0) = "Struct" /\ FirstUnknown(es, target0.t) # 0) =>
                    /\ uerr.kind = "UnknownField"
                    /\ uerr.crumbs = <<FieldCrumb(es[FirstUnknown(es, target0.t)].name)>>
            /\ (Kind(target0) = "Struct" /\ \E i \in 1..Len(es) : es[i].name \notin DOMAIN target0.t.fs) =>
                    IsErr(uerr)
            /\ target0.t = MapOf(AnyT) =>
                    /\ ~IsErr(uerr)
                    /\ \A i \in 1..Len(es) :
                          /\ es[i].name \in DOMAIN target.m
                          /\ target.m[es[i].name] = es[LastNamed(es, i)].val
\* A record target met a name it does not define after a field it does.
C3_Witness ==
    /\ phase = "read"
    /\ Kind(target0) = "Struct"
    /\ uerr.kind = "UnknownField"
    /\ \E es \in EntryLists : full = CompoundOf(es) /\ Len(es) = 2 /\ FirstUnknown(es, target0.t) = 2

\* The signed kind of the width of an integer tag.
SignedKind(tag) ==
    CASE tag = tagByte -> "Int8"
      [] tag = tagShort -> "Int16"
      [] tag = tagInt -> "Int32"
      [] tag = tagLong -> "Int64"

\* C4: an integer tag read into the signed target of its own width, or boxed
\* as a map value, leaves exactly the bytes that were on the wire as the
\* target's two's-complement value.
C4_IntegerDecodeExact ==
    \A tag \in IntTags : \A bits \in Patterns(KindSize(SignedKind(tag))) :
        (phase = "read" /\ ~cut /\ value = None) =>
            /\ (full = <<tag, 0, 0>> \o bits /\ target0 = Zero(Ty(SignedKind(tag)))) =>
                    (~IsErr(uerr) /\ target = NumV(SignedKind(tag), bits))
            /\ (full = <<tagCompound, 0, 0>> \o IntEntry(tag, bits) \o <<tagEnd>> /\ target0 = NilMapV(AnyT)) =>
                    (~IsErr(uerr) /\ target.m = (NameA :> NumV(SignedKind(tag), bits)))

\* The value Marshal encodes: the one given, or the one its pointer leads to.
Pointee(v) == IF Kind(v) = "Ptr" /\ v.p # <<>> THEN v.p[1] ELSE v
\* The array tag of section 4.1 for arrays of this element kind (0: none).
ArrayTagOf(k) ==
    CASE k \in {"Int8", "Uint8"} -> tagByteArray
      [] k \in {"Int32", "Uint32"} -> tagIntArray
      [] k \in {"Int64", "Uint64"} -> tagLongArray
      [] OTHER -> tagEnd
IsIntArray(t) == t.k = "Array" /\ ArrayTagOf(t.e.k) # tagEnd
\* The payload of an array: its count, then its elements.
CountedArray(a) == BE32(Len(a.items)) \o Concat([i \in 1..Len(a.items) |-> a.items[i].bits])

\* C5: an array of 8-, 32- or 64-bit integers is written as its array tag
\* followed by the 4-byte count and the elements, as a named tag and as each
\* element of a List alike.
C5_ArrayHasCount ==
    (phase = "written" /\ value # None) =>
        /\ IsIntArray(Pointee(value).t) =>
              /\ ~IsErr(merr)
              /\ full = <<ArrayTagOf(Pointee(value).t.e.k), 0, 0>> \o CountedArray(Pointee(value))
        /\ (Kind(Pointee(value)) = "Slice" /\ IsIntArray(Pointee(value).t.e)) =>
              /\ ~IsErr(merr)
              /\ full = <<tagList, 0, 0, ArrayTagOf(Pointee(value).t.e.e.k)>>
                        \o BE32(Len(Pointee(value).items))
                        \o Concat([i \in 1..Len(Pointee(value).items) |-> CountedArray(Pointee(value).items[i])])

\* The element tag of section 4.1 for a declared element shape.
ElemTagOf(e) ==
    CASE e.k \in {"Bool", "Int8", "Uint8"} -> tagByte
      [] e.k \in {"Int16", "Uint16"} -> tagShort
      [] e.k \in {"Int32", "Uint32"} -> tagInt
      [] e.k \in {"Int64", "Uint64"} -> tagLong
      [] e.k = "Float32" -> tagFloat
      [] e.k = "Float64" -> tagDouble
      [] e.k = "String" -> tagString
      [] e.k = "Slice" -> tagList
\* Sequences of fixed-width values, of strings, or of such sequences.
RECURSIVE PlainList(_)
PlainList(t) == t.k = "Slice" /\ (t.e.k \in ScalarKinds \cup {"String"} \/ PlainList(t.e))
\* The payload of a List: element tag, count, the payloads of the elements.
RECURSIVE ListPayload(_)
ElemPayload(x) ==
    CASE Kind(x) = "Bool" -> IF x.b THEN <<1>> ELSE <<0>>
      [] Kind(x) = "String" -> BE16(Len(x.s)) \o x.s
      [] Kind(x) = "Slice" -> ListPayload(x)
      [] OTHER -> x.bits
ListPayload(v) ==
    <<ElemTagOf(v.t.e)>> \o BE32(Len(v.items)) \o Concat([i \in 1..Len(v.items) |-> ElemPayload(v.items[i])])
\* The 32-bit int sequence [1, 2, 3] under the name "a".
ListExample == MapV(AnyT, (NameA :> SliceV(Ty("Int32"), <<I32(1), I32(2), I32(3)>>)))

\* C6: a sequence of n elements under name N is written as 09, the length
\* of N and N, the element tag of the declared element shape, the 4-byte
\* count n, then the payloads of the elements in order with no tag and no
\* name between them; [1, 2, 3] under "a" gives the bytes of the example.
C6_ListEncoding ==
    (phase = "written" /\ value # None) =>
        /\ PlainList(Pointee(value).t) =>
              /\ ~IsErr(merr)
              /\ full = <<tagList, 0, 0>> \o ListPayload(Pointee(value))
        /\ \A N \in Names :
              (Kind(value) = "Map" /\ DOMAIN value.m = {N} /\ PlainList(value.m[N].t)) =>
                  /\ ~IsErr(merr)
                  /\ full = <<tagCompound, 0, 0>> \o <<tagList>> \o BE16(Len(N)) \o N
                            \o ListPayload(value.m[N]) \o <<tagEnd>>
        /\ value = ListExample =>
              full = <<10, 0, 0, 9, 0, 1, 97, 3, 0, 0, 0, 3, 0, 0, 0, 1, 0, 0, 0, 2, 0, 0, 0, 3, 0>>
\* The example sequence has been written under its name.
C6_Witness == phase = "written" /\ value = ListExample /\ ~IsErr(merr) /\ Len(full) = 25

\* A raw ByteArray, IntArray or LongArray document, read whole.
ArrayTags == {tagByteArray, tagIntArray, tagLongArray}
ReadArray == ReadRaw /\ RootTag \in ArrayTags
\* The count on the wire: the four bytes after the root's tag and name.
WireCount == U32(SubSeq(full, 4, 7))

\* C7: a count above the length of a fixed-size array target fails with the
\* capacity error, with nothing read after the count and the target as it
\* was.
C7_CapacityBeforeElements ==
    (ReadArray /\ Kind(target0) = "Array" /\ WireCount > target0.t.n) =>
        /\ uerr.kind = "Capacity"
        /\ target = target0
        /\ rest = Drop(full, 7)
\* A count of 2 met an array of one element.
C7_Witness ==
    /\ ReadArray
    /\ Kind(target0) = "Array"
    /\ target0.t.n = 1
    /\ WireCount = 2
    /\ uerr.kind = "Capacity"

\* C8: a successful read of an array tag of count c into a slice target of
\* a compatible element kind leaves the slice with exactly c elements,
\* whatever its length before.
C8_SliceLengthIsCount ==
    (ReadArray /\ Kind(target0) = "Slice" /\ Compatible(RootTag, target0.t) /\ ~IsErr(uerr)) =>
        Len(target.items) = WireCount

\* Values whose encoding the decoder reads back by fixed steps: fixed-width
\* values, strings, sequences of them, and maps of names to such values.
Flat(v) ==
    \/ Kind(v) \in ScalarKinds \cup {"String"}
    \/ PlainList(v.t)
    \/ Kind(v) = "Map" /\ v.t.e = AnyT /\ ~v.nil /\ \A n \in DOMAIN v.m : Kind(v.m[n]) \in ScalarKinds \cup {"String"} \/ PlainList(v.m[n].t)
\* A stream Marshal wrote for such a value, cut short, then read into a
\* target of the value's own shape.
ReadCut == phase = "read" /\ cut /\ value # None /\ Flat(value) /\ target0 = Zero(value.t)

\* C9: reading a well-formed stream that was cut short fails with the I/O
\* error, through either kind of reader; it never succeeds.
C9_TruncationFails == ReadCut => uerr.kind = "IO"

\* Width in bytes of one element of a sequence of fixed-width values.
ElemWidth(e) == IF e.k = "Bool" THEN 1 ELSE KindSize(e.k)
\* Width in bytes of one element of an array tag.
ArrayElemWidth(tag) == KindSize(SignedKind(CASE tag = tagByteArray -> tagByte [] tag = tagIntArray -> tagInt [] OTHER -> tagLong))
\* The index of the element a cut at byte n falls in, the elements starting
\* after the first byte `from`.
IndexAt(n, from, width) == (n - from) \div width

\* C10: the error of a failed decode carries one breadcrumb for each
\* container around the value that failed: the index of the element of a
\* List or of an array that the cut fell in, the name of the entry of a
\* Compound whose payload the cut fell in.
C10_BreadcrumbsNameThePath ==
    /\ (ReadCut /\ Kind(value) = "Slice" /\ value.t.e.k \in ScalarKinds /\ Len(stream) >= 8 /\ IsErr(uerr)) =>
            uerr.crumbs = <<IndexCrumb(IndexAt(Len(stream), 8, ElemWidth(value.t.e)))>>
    /\ \A N \in Names :
          (ReadCut /\ Kind(value) = "Map" /\ DOMAIN value.m = {N} /\ Kind(value.m[N]) \in ScalarKinds
             /\ Len(stream) >= 6 + Len(N) /\ Len(stream) < Len(full) - 1 /\ IsErr(uerr)) =>
                uerr.crumbs = <<FieldCrumb(N)>>
    /\ (phase = "read" /\ cut /\ value = None /\ RootTag \in ArrayTags /\ Len(stream) >= 7
          /\ Kind(target0) = "Slice" /\ Compatible(RootTag, target0.t) /\ IsErr(uerr)) =>
            uerr.crumbs = <<IndexCrumb(IndexAt(Len(stream), 7, ArrayElemWidth(RootTag)))>>

\* The value behind an interface or a pointer that holds one.
Bare(x) ==
    IF Kind(x) = "Interface" /\ x.x # <<>> THEN x.x[1]
    ELSE IF Kind(x) = "Ptr" /\ x.p # <<>> THEN x.p[1]
    ELSE x
\* The entries of a mapping or of a record, by name.
EntriesOf(x) == IF Kind(x) = "Map" THEN [n \in DOMAIN x.m |-> Bare(x.m[n])] ELSE [n \in DOMAIN x.f |-> Bare(x.f[n])]
\* Values made of fixed-width values, strings, sequences, mappings and
\* records only.
RECURSIVE Framed(_)
Framed(x) ==
    \/ Kind(x) \in ScalarKinds \cup {"String"}
    \/ PlainList(x.t)
    \/ /\ Kind(x) = "Slice"
       /\ x.t.e.k \in {"Map", "Struct", "Ptr"}
       /\ \A i \in 1..Len(x.items) : Kind(Bare(x.items[i])) \in {"Map", "Struct"} /\ Framed(Bare(x.items[i]))
    \/ /\ Kind(x) \in {"Map", "Struct"}
       /\ \A n \in DOMAIN EntriesOf(x) : Framed(EntriesOf(x)[n])
\* The tag of a value of section 4.1.
TagOf(x) == IF Kind(x) \in {"Map", "Struct"} THEN tagCompound ELSE ElemTagOf(x.t)
\* The orders the entries of a Compound may be written in.
Perms(S) == {o \in [1..Cardinality(S) -> S] : \A i, j \in 1..Cardinality(S) : o[i] = o[j] => i = j}
\* The payloads section 4.1 allows for a value: a Compound is its entries in
\* any order, each a full named tag, then one End; a List of Compounds is
\* the tag, the count and such payloads.
RECURSIVE PayloadsOf(_)
NamedTag(name, x, payload) == <<TagOf(x)>> \o BE16(Len(name)) \o name \o payload
CompoundPayloads(g) ==
    {Concat([i \in 1..Len(o) |-> NamedTag(o[i], g[o[i]], c[o[i]])]) \o <<tagEnd>> :
        o \in Perms(DOMAIN g),
        c \in {c \in [DOMAIN g -> UNION {PayloadsOf(g[n]) : n \in DOMAIN g}] : \A n \in DOMAIN g : c[n] \in PayloadsOf(g[n])}}
ListOfCompounds(items) ==
    {<<tagCompound>> \o BE32(Len(items)) \o Concat(c) :
        c \in {c \in [1..Len(items) -> UNION {PayloadsOf(Bare(items[i])) : i \in 1..Len(items)}] :
                  \A i \in 1..Len(items) : c[i] \in PayloadsOf(Bare(items[i]))}}
PayloadsOf(x) ==
    CASE Kind(x) \in {"Map", "Struct"} -> CompoundPayloads(EntriesOf(x))
      [] Kind(x) = "Slice" /\ ~PlainList(x.t) -> ListOfCompounds(x.items)
      [] OTHER -> {ElemPayload(x)}
\* Marshal has written a mapping, a record or a List of them.
WroteCompound ==
    /\ phase = "written"
    /\ value # None
    /\ Framed(Pointee(value))
    /\ Kind(Pointee(value)) \in {"Map", "Struct"} \/ (Kind(Pointee(value)) = "Slice" /\ ~PlainList(Pointee(value).t))

\* C11: every Compound written, at the root, as an entry or as a List
\* element, is its entries as full named tags followed by exactly one End
\* byte; the empty mapping under the empty name is 0A 00 00 00.
C11_CompoundEndsOnce ==
    /\ WroteCompound =>
          /\ ~IsErr(merr)
          /\ full \in {<<TagOf(Pointee(value)), 0, 0>> \o p : p \in PayloadsOf(Pointee(value))}
    /\ (phase = "written" /\ value = MapV(AnyT, <<>>)) => full = <<10, 0, 0, 0>>
\* A mapping of two entries, one of them a mapping, has been written.
C11_Witness ==
    /\ WroteCompound
    /\ Kind(value) = "Map"
    /\ Cardinality(DOMAIN value.m) = 2
    /\ \E n \in DOMAIN value.m : Kind(value.m[n]) = "Map"
    /\ ~IsErr(merr)

\* C12: a record is written with its fields in one fixed order, so that
\* every other Marshal call on the same record value writes the same bytes
\* as the call that was made.
C12_RecordOrderFixed ==
    (phase = "written" /\ value # None /\ Kind(Pointee(value)) = "Struct" /\ ~IsErr(merr)) =>
        \A again \in Marshal(value) : again.out = full

=============================================================================
